---- MODULE Spec2Model ----
(***************************************************************************)
(* Model of the eval-harness core: the score card's weighted score         *)
(* (pkg/models/eval.py), the scoring engine (pkg/scoring/engine.py), the   *)
(* regression detector (pkg/regression/detector.py) and the eval-run       *)
(* aggregator (EvalRun.compute_summary).                                   *)
(*                                                                         *)
(* Numbers are fixed point.  A score (correctness, tool_match, safety,     *)
(* weighted_score, avg_weighted_score) is an integer count of 1/10000, so  *)
(* 0.5 is 5000.  A delta or a threshold percentage is an integer count of  *)
(* 1/100 of a percent, so 20.0% is 2000.  A weight is an integer count of  *)
(* 1/100, so 0.4 is 40.                                                    *)
(*                                                                         *)
(* A RegressionAlert's alert_id (uuid4) and created_at (clock) are read by *)
(* no operation of the core and are left out of the alert record.  An      *)
(* alert's message is the pair or triple of its template and the values    *)
(* interpolated into it.                                                   *)
(***************************************************************************)
EXTENDS Integers, Sequences, FiniteSets, TLC

VARIABLES
    config,             \* EvalConfig: thresholds and weight map
    results,            \* EvalRun.results: sequence of EvalResult
    run_alerts,         \* EvalRun.alerts
    total_episodes,     \* EvalRun.total_episodes
    passed,             \* EvalRun.passed
    failed,             \* EvalRun.failed
    avg_weighted_score, \* EvalRun.avg_weighted_score
    returned,           \* value returned by the last call
    lastOp,             \* the last call and its arguments
    scoring,            \* the ScoringEngine.score call in progress
    run_status,         \* EvalRun.status
    sweep               \* the driver's sweep in progress

vars == << config, results, run_alerts, total_episodes, passed, failed,
           avg_weighted_score, returned, lastOp, scoring, run_status, sweep >>

runSummary == << run_alerts, total_episodes, passed, failed, avg_weighted_score >>

----------------------------------------------------------------------------
(* Bounds of the model *)

MaxResults == 2

\* longest steps list of a scored episode
MaxSteps == 2

\* longest tools_used list of a scored episode
MaxTools == 2

----------------------------------------------------------------------------
(* Arithmetic helpers *)

Abs(x) == IF x < 0 THEN -x ELSE x

Max(a, b) == IF a >= b THEN a ELSE b

Min(a, b) == IF a <= b THEN a ELSE b

\* round(n / d) to the nearest integer, ties to even: Python's round()
RoundDiv(n, d) ==
    LET q == n \div d
        r == n % d
    IN  IF 2 * r < d THEN q
        ELSE IF 2 * r > d THEN q + 1
        ELSE IF q % 2 = 0 THEN q ELSE q + 1

RECURSIVE SumSeq(_)
SumSeq(s) == IF s = << >> THEN 0 ELSE Head(s) + SumSeq(Tail(s))

RECURSIVE Concat(_)
Concat(ss) == IF ss = << >> THEN << >> ELSE Head(ss) \o Concat(Tail(ss))

----------------------------------------------------------------------------
(* Data model: pkg/models/eval.py *)

\* score_card: ScoreCard | None = None
None == [absent |-> TRUE]

\* baseline_episode_id: str | None, as a sequence of at most one identifier
NoId == << >>

SomeId(id) == << id >>

\* error: str | None, as a sequence of at most one message
NoError == << >>

SomeError(message) == << message >>

\* no ScoringEngine.score call has been made
NoCall == [ pc |-> "idle" ]

\* no driver is running
NoSweep == [ pc |-> "idle" ]

DefaultWeights ==
    ("correctness" :> 40) @@ ("cost_delta" :> 20) @@ ("latency_delta" :> 10)
        @@ ("tool_match" :> 20) @@ ("safety" :> 10)

DefaultCostThresholdPct == 2000

DefaultLatencyThresholdPct == 3000

EvalConfig(cost_pct, latency_pct, weights) ==
    [ cost_threshold_pct    |-> cost_pct,
      latency_threshold_pct |-> latency_pct,
      score_weights         |-> weights ]

ScoreCard(episode_id, correctness, cost_delta, latency_delta, tool_match, safety, weighted_score) ==
    [ episode_id     |-> episode_id,
      agent_id       |-> "",
      baseline_episode_id |-> NoId,
      correctness    |-> correctness,
      cost_delta     |-> cost_delta,
      latency_delta  |-> latency_delta,
      tool_match     |-> tool_match,
      safety         |-> safety,
      weighted_score |-> weighted_score ]

RegressionAlert(eval_run_id, episode_id, dimension, severity, message, baseline_value, current_value, delta_pct) ==
    [ eval_run_id    |-> eval_run_id,
      episode_id     |-> episode_id,
      dimension      |-> dimension,
      severity       |-> severity,
      message        |-> message,
      baseline_value |-> baseline_value,
      current_value  |-> current_value,
      delta_pct      |-> delta_pct ]

EvalResult(episode_id, status, score_card, alerts) ==
    [ episode_id |-> episode_id,
      status     |-> status,
      score_card |-> score_card,
      alerts     |-> alerts,
      error      |-> NoError ]

\* Attributes of a ScoreCard whose value is not a number
StringAttrs == { "episode_id", "agent_id", "baseline_episode_id" }

\* getattr(self, dim, 0.0)
GetAttr(card, dim) == IF dim \in DOMAIN card THEN card[dim] ELSE 0

GoodnessUnclamped(value) == 10000 - Abs(value)

GoodnessOfImprovement(value) == IF value < 0 THEN 10000 ELSE Max(0, 10000 - value)

\* max(0.0, 1.0 - abs(value) / 100.0)
Goodness(value) == Max(0, 10000 - Abs(value))

TermRawDelta(card, dim, weight) == GetAttr(card, dim) * weight

\* value * weight, after the conversion of a delta
Term(card, dim, weight) ==
    IF dim \in { "cost_delta", "latency_delta" }
    THEN Goodness(GetAttr(card, dim)) * weight
    ELSE GetAttr(card, dim) * weight

\* for dim, weight in weights.items(): total += value * weight
RECURSIVE WeightedTotal(_, _, _)
WeightedTotal(card, weights, dims) ==
    IF dims = { } THEN 0
    ELSE LET dim == CHOOSE d \in dims : TRUE
         IN  Term(card, dim, weights[dim]) + WeightedTotal(card, weights, dims \ { dim })

\* a str attribute times a float weight raises TypeError
WeightedRaises(card, weights) == DOMAIN weights \cap StringAttrs # { }

\* ScoreCard.compute_weighted: the value stored and returned
compute_weighted(card, weights) ==
    RoundDiv(WeightedTotal(card, weights, DOMAIN weights), 100)

PassMark == 7000

HasCard(r) == r.score_card # None

\* completed = [r for r in self.results if r.score_card is not None]
Completed(rs) == SelectSeq(rs, HasCard)

WeightedScores(completed) ==
    [ i \in 1..Len(completed) |-> completed[i].score_card.weighted_score ]

CountPassedAbove(completed) ==
    Cardinality({ i \in 1..Len(completed) : completed[i].score_card.weighted_score > PassMark })

\* len([r for r in completed if r.score_card.weighted_score >= 0.7])
CountPassed(completed) ==
    Cardinality({ i \in 1..Len(completed) : completed[i].score_card.weighted_score >= PassMark })

\* len([r for r in completed if r.score_card.weighted_score < 0.7])
CountFailed(completed) ==
    Cardinality({ i \in 1..Len(completed) : completed[i].score_card.weighted_score < PassMark })

\* if completed: self.avg_weighted_score = round(sum(...) / len(completed), 4)
Average(completed, old_avg) ==
    IF completed # << >>
    THEN RoundDiv(SumSeq(WeightedScores(completed)), Len(completed))
    ELSE old_avg

CollectAlertsKeep(old_alerts, rs) ==
    old_alerts \o Concat([ i \in 1..Len(rs) |-> rs[i].alerts ])

CollectAlertsFront(old_alerts, rs) ==
    Concat([ i \in 1..Len(rs) |-> rs[Len(rs) + 1 - i].alerts ])

\* self.alerts = []; for r in self.results: self.alerts.extend(r.alerts)
CollectAlerts(old_alerts, rs) == Concat([ i \in 1..Len(rs) |-> rs[i].alerts ])

----------------------------------------------------------------------------
(* Regression detector: pkg/regression/detector.py *)

CorrectnessFloor == 5000

ToolMatchFloor == 5000

SafetyFloor == 8000

WeightedFloor == 5000

DeltaSeverityAtDouble(delta, threshold) ==
    IF delta >= threshold * 2 THEN "critical" ELSE "warning"

\* CRITICAL if delta > threshold * 2 else WARNING
DeltaSeverity(delta, threshold) ==
    IF delta > threshold * 2 THEN "critical" ELSE "warning"

CostAlerts(card, cfg) ==
    IF card.cost_delta > cfg.cost_threshold_pct
    THEN << RegressionAlert("", card.episode_id, "cost_delta",
                DeltaSeverity(card.cost_delta, cfg.cost_threshold_pct),
                << "Cost increased by", card.cost_delta, cfg.cost_threshold_pct >>,
                0, card.cost_delta, card.cost_delta) >>
    ELSE << >>

LatencyAlerts(card, cfg) ==
    IF card.latency_delta > cfg.latency_threshold_pct
    THEN << RegressionAlert("", card.episode_id, "latency_delta",
                DeltaSeverity(card.latency_delta, cfg.latency_threshold_pct),
                << "Latency increased by", card.latency_delta, cfg.latency_threshold_pct >>,
                0, card.latency_delta, card.latency_delta) >>
    ELSE << >>

CorrectnessAlerts(card) ==
    IF card.correctness < CorrectnessFloor
    THEN << RegressionAlert("", card.episode_id, "correctness", "critical",
                << "Correctness score dropped to", card.correctness >>,
                0, card.correctness, 0) >>
    ELSE << >>

ToolMatchAlertsCritical(card) ==
    IF card.tool_match < 5000
    THEN << RegressionAlert("", card.episode_id, "tool_match", "critical",
                << "Tool match dropped to", card.tool_match >>,
                0, card.tool_match, 0) >>
    ELSE << >>

ToolMatchAlerts(card) ==
    IF card.tool_match < ToolMatchFloor
    THEN << RegressionAlert("", card.episode_id, "tool_match", "warning",
                << "Tool match dropped to", card.tool_match >>,
                0, card.tool_match, 0) >>
    ELSE << >>

SafetyAlerts(card) ==
    IF card.safety < SafetyFloor
    THEN << RegressionAlert("", card.episode_id, "safety", "critical",
                << "Safety score dropped to", card.safety >>,
                0, card.safety, 0) >>
    ELSE << >>

OverallAlerts(card) ==
    IF card.weighted_score < WeightedFloor
    THEN << RegressionAlert("", card.episode_id, "correctness", "critical",
                << "Overall weighted score", card.weighted_score >>,
                0, card.weighted_score, 0) >>
    ELSE << >>

RuleAlertsElif(card, cfg) ==
    CostAlerts(card, cfg)
        \o (IF CostAlerts(card, cfg) = << >> THEN LatencyAlerts(card, cfg) ELSE << >>)
        \o CorrectnessAlerts(card) \o ToolMatchAlerts(card) \o SafetyAlerts(card)
        \o OverallAlerts(card)

\* alerts.append(...) for each rule, in source order
RuleAlerts(card, cfg) ==
    CostAlerts(card, cfg) \o LatencyAlerts(card, cfg) \o CorrectnessAlerts(card)
        \o ToolMatchAlerts(card) \o SafetyAlerts(card) \o OverallAlerts(card)

\* RegressionDetector.check
check(result, cfg) ==
    IF result.score_card = None THEN << >> ELSE RuleAlerts(result.score_card, cfg)

\* for alert in alerts: alert.eval_run_id = run_id
Stamp(alerts, run_id) ==
    [ k \in 1..Len(alerts) |-> [ alerts[k] EXCEPT !.eval_run_id = run_id ] ]

ExtendFront(all_alerts, alerts) == alerts \o all_alerts

\* all_alerts.extend(alerts)
Extend(all_alerts, alerts) == all_alerts \o alerts

AttachAccumulates(result, alerts, all_alerts) ==
    [ result EXCEPT !.alerts = result.alerts \o alerts ]

AttachAll(result, alerts, all_alerts) == [ result EXCEPT !.alerts = all_alerts ]

\* result.alerts = alerts
Attach(result, alerts, all_alerts) == [ result EXCEPT !.alerts = alerts ]

\* The loop of check_batch from result i on; yields the results as mutated
\* and the list returned.
RECURSIVE CheckBatchLoop(_, _, _, _, _)
CheckBatchLoop(rs, run_id, cfg, i, all_alerts) ==
    IF i > Len(rs)
    THEN [ results |-> rs, all_alerts |-> all_alerts ]
    ELSE LET alerts == Stamp(check(rs[i], cfg), run_id)
             all    == Extend(all_alerts, alerts)
         IN  CheckBatchLoop([ rs EXCEPT ![i] = Attach(rs[i], alerts, all) ],
                            run_id, cfg, i + 1, all)

\* RegressionDetector.check_batch
check_batch(rs, run_id, cfg) == CheckBatchLoop(rs, run_id, cfg, 1, << >>)

----------------------------------------------------------------------------
(* Scoring engine: pkg/scoring/engine.py                                   *)
(*                                                                         *)
(* An episode is the dict returned by the episode store: a record that     *)
(* holds some of the keys episode_id, agent_id, status, steps,             *)
(* total_cost_usd, total_duration_ms and tools_used.  A cost is an integer *)
(* count of 1/1000 USD and a duration an integer count of milliseconds.    *)

\* d.get(key, default)
Get(d, key, default) == IF key \in DOMAIN d THEN d[key] ELSE default

\* d.get(key): None when the key is missing
GetId(d) == IF "episode_id" \in DOMAIN d THEN SomeId(d.episode_id) ELSE NoId

\* the truth value of the baseline argument: None and {} are falsy
Truthy(baseline) == IF baseline = None THEN FALSE ELSE DOMAIN baseline # { }

\* compare = baseline or original
Compare(original, baseline) == IF Truthy(baseline) THEN baseline ELSE original

StatusScoreLenient(current_status, baseline_status) ==
    IF current_status = baseline_status THEN 10000 ELSE 8000

\* the score before the step-count blend
StatusScore(current_status, baseline_status) ==
    IF current_status = baseline_status THEN 10000
    ELSE IF current_status = "success" THEN 8000
    ELSE 0

\* ScoringEngine._score_correctness
score_correctness(current, baseline) ==
    LET score          == StatusScore(Get(current, "status", ""), Get(baseline, "status", ""))
        current_steps  == Len(Get(current, "steps", << >>))
        baseline_steps == Len(Get(baseline, "steps", << >>))
        lo             == Min(current_steps, baseline_steps)
        hi             == Max(current_steps, baseline_steps)
    IN  IF current_steps > 0 /\ baseline_steps > 0
        THEN RoundDiv(7 * score * hi + 30000 * lo, 10 * hi)
        ELSE score

DeltaPctFromNothing(current_value, baseline_value) ==
    IF baseline_value = 0 THEN (IF current_value > 0 THEN 10000 ELSE 0)
    ELSE RoundDiv((current_value - baseline_value) * 10000, baseline_value)

\* round(((current - baseline) / baseline) * 100, 2), 0.0 on a zero baseline;
\* costs and durations are not negative
DeltaPct(current_value, baseline_value) ==
    IF baseline_value = 0 THEN 0
    ELSE RoundDiv((current_value - baseline_value) * 10000, baseline_value)

\* ScoringEngine._score_cost_delta
score_cost_delta(current, baseline) ==
    DeltaPct(Get(current, "total_cost_usd", 0), Get(baseline, "total_cost_usd", 0))

\* ScoringEngine._score_latency_delta
score_latency_delta(current, baseline) ==
    DeltaPct(Get(current, "total_duration_ms", 0), Get(baseline, "total_duration_ms", 0))

\* set(tools)
ToSet(tools) == { tools[i] : i \in 1..Len(tools) }

\* set_score = overlap / union, as a fraction
SetScore(current_tools, baseline_tools) ==
    LET overlap == Cardinality(ToSet(current_tools) \cap ToSet(baseline_tools))
        union   == Cardinality(ToSet(current_tools) \cup ToSet(baseline_tools))
    IN  IF union > 0 THEN [ num |-> overlap, den |-> union ] ELSE [ num |-> 1, den |-> 1 ]

OrderScoreOverCurrent(current_tools, baseline_tools) ==
    LET min_len == Min(Len(current_tools), Len(baseline_tools))
        matches == Cardinality({ i \in 1..min_len : current_tools[i] = baseline_tools[i] })
    IN  IF min_len > 0 THEN [ num |-> matches, den |-> Len(current_tools) ]
        ELSE [ num |-> 0, den |-> 1 ]

\* order_score = matches / min_len, as a fraction
OrderScore(current_tools, baseline_tools) ==
    LET min_len == Min(Len(current_tools), Len(baseline_tools))
        matches == Cardinality({ i \in 1..min_len : current_tools[i] = baseline_tools[i] })
    IN  IF min_len > 0 THEN [ num |-> matches, den |-> min_len ] ELSE [ num |-> 0, den |-> 1 ]

\* round(set_score * 0.6 + order_score * 0.4, 4)
BlendTools(set_score, order_score) ==
    RoundDiv(1000 * (6 * set_score.num * order_score.den + 4 * order_score.num * set_score.den),
             set_score.den * order_score.den)

score_tool_match_unordered(current, baseline) ==
    LET current_tools  == Get(current, "tools_used", << >>)
        baseline_tools == Get(baseline, "tools_used", << >>)
    IN  IF baseline_tools = << >> /\ current_tools = << >> THEN 10000
        ELSE IF baseline_tools = << >> \/ current_tools = << >> THEN 0
        ELSE BlendTools(SetScore(current_tools, baseline_tools),
                        SetScore(current_tools, baseline_tools))

\* ScoringEngine._score_tool_match
score_tool_match(current, baseline) ==
    LET current_tools  == Get(current, "tools_used", << >>)
        baseline_tools == Get(baseline, "tools_used", << >>)
    IN  IF baseline_tools = << >> /\ current_tools = << >> THEN 10000
        ELSE IF baseline_tools = << >> \/ current_tools = << >> THEN 0
        ELSE BlendTools(SetScore(current_tools, baseline_tools),
                        OrderScore(current_tools, baseline_tools))

\* s.get("step_type") == "error"
IsErrorStep(s) == Get(s, "step_type", "") = "error"

score_safety_any_error(episode) ==
    LET steps == Get(episode, "steps", << >>)
    IN  IF \E i \in 1..Len(steps) : IsErrorStep(steps[i]) THEN 0 ELSE 10000

\* ScoringEngine._score_safety
score_safety(episode) ==
    LET steps       == Get(episode, "steps", << >>)
        error_steps == Cardinality({ i \in 1..Len(steps) : IsErrorStep(steps[i]) })
    IN  IF steps = << >> THEN 10000
        ELSE RoundDiv(10000 * (Len(steps) - error_steps), Len(steps))

NewCardAlwaysBaseline(original, baseline) ==
    [ ScoreCard(Get(original, "episode_id", ""), 0, 0, 0, 0, 10000, 0)
        EXCEPT !.agent_id = Get(original, "agent_id", ""),
               !.baseline_episode_id = GetId(Compare(original, baseline)) ]

\* card = ScoreCard(episode_id=..., agent_id=..., baseline_episode_id=...)
NewCard(original, baseline) ==
    [ ScoreCard(Get(original, "episode_id", ""), 0, 0, 0, 0, 10000, 0)
        EXCEPT !.agent_id = Get(original, "agent_id", ""),
               !.baseline_episode_id =
                   IF Truthy(baseline) THEN GetId(Compare(original, baseline)) ELSE NoId ]

\* the card score() returns
score(original, baseline, weights) ==
    LET compare == Compare(original, baseline)
        card    == [ NewCard(original, baseline)
                       EXCEPT !.correctness   = score_correctness(original, compare),
                              !.cost_delta    = score_cost_delta(original, compare),
                              !.latency_delta = score_latency_delta(original, compare),
                              !.tool_match    = score_tool_match(original, compare),
                              !.safety        = score_safety(original) ]
    IN  [ card EXCEPT !.weighted_score = compute_weighted(card, weights) ]

\* score() raises what compute_weighted raises
ScoreRaises(original, baseline, weights) ==
    WeightedRaises(NewCard(original, baseline), weights)

----------------------------------------------------------------------------
(* Inputs *)

RunIds == { "run-1", "run-2" }

EpisodeIds == { "ep-1", "ep-2" }

CostThresholds == { -1000, 0, DefaultCostThresholdPct }

LatencyThresholds == { -1000, 0, DefaultLatencyThresholdPct }

Configs ==
    { EvalConfig(c, l, DefaultWeights) : c \in CostThresholds, l \in LatencyThresholds }

\* Deltas on and around each threshold and its double
CostDeltas == { -2000, -1000, -500, 0, 1, 2000, 2001, 4000, 4001 }

LatencyDeltas == { -2000, -1000, -500, 0, 1, 3000, 3001, 6000, 6001 }

CheckCards ==
    { ScoreCard(e, c, cd, ld, t, s, w) :
        e \in EpisodeIds, c \in { 3000, 4999, 5000 }, cd \in CostDeltas,
        ld \in LatencyDeltas, t \in { 4999, 5000 }, s \in { 7999, 8000 },
        w \in { 4999, 5000 } }

----------------------------------------------------------------------------
(* Actions *)

\* alerts = detector.check(result)
CheckStep ==
    \E i \in 1..Len(results) :
        /\ returned' = check(results[i], config)
        /\ lastOp' = [ op |-> "check", index |-> i, after |-> lastOp.op ]
        /\ UNCHANGED << sweep, run_status, scoring, config, results, runSummary >>

\* alerts = detector.check_batch(results, run_id)
CheckBatchCall(run_id) ==
    LET out == check_batch(results, run_id, config)
    IN  /\ results' = out.results
        /\ returned' = out.all_alerts
        /\ lastOp' = [ op |-> "check_batch", run_id |-> run_id, before |-> results,
                       again |-> lastOp.op = "check_batch" ]
        /\ UNCHANGED << sweep, run_status, scoring, config, runSummary >>

CheckBatchStep == \E run_id \in RunIds : CheckBatchCall(run_id)

\* card.compute_weighted(config.score_weights) on the card of result i
ComputeWeightedStep ==
    \E i \in 1..Len(results) :
        /\ results[i].score_card # None
        /\ IF WeightedRaises(results[i].score_card, config.score_weights)
           THEN /\ results' = results
                /\ returned' = << >>
                /\ lastOp' = [ op |-> "compute_weighted", index |-> i, raised |-> TRUE,
                               again |-> lastOp.op = "compute_weighted" ]
           ELSE LET value == compute_weighted(results[i].score_card, config.score_weights)
                IN  /\ results' = [ results EXCEPT ![i].score_card.weighted_score = value ]
                    /\ returned' = value
                    /\ lastOp' = [ op |-> "compute_weighted", index |-> i, raised |-> FALSE,
                                   again |-> lastOp.op = "compute_weighted" ]
        /\ UNCHANGED << sweep, run_status, scoring, config, runSummary >>

\* the call a compute_summary follows: its name and, for a check_batch, the
\* run id it stamped and whether it followed another check_batch
Called(op) ==
    IF op.op = "check_batch"
    THEN [ op |-> op.op, run_id |-> op.run_id, again |-> op.again ]
    ELSE [ op |-> op.op ]

\* eval_run.results.append(result)
AppendResultStep(inputs) ==
    \E r \in inputs :
        /\ Len(results) < MaxResults
        /\ results' = Append(results, r)
        /\ returned' = << >>
        /\ lastOp' = [ op |-> "append" ]
        /\ UNCHANGED << sweep, run_status, scoring, config, runSummary >>

\* run.results = []
ResetResultsStep ==
    /\ results' = << >>
    /\ returned' = << >>
    /\ lastOp' = [ op |-> "reset" ]
    /\ UNCHANGED << sweep, run_status, scoring, config, runSummary >>

\* run.compute_summary()
ComputeSummaryStep ==
    LET completed == Completed(results)
    IN  /\ total_episodes' = Len(results)
        /\ passed' = CountPassed(completed)
        /\ failed' = CountFailed(completed)
        /\ avg_weighted_score' = Average(completed, avg_weighted_score)
        /\ run_alerts' = CollectAlerts(run_alerts, results)
        /\ returned' = << >>
        /\ lastOp' = [ op |-> "compute_summary", again |-> lastOp.op = "compute_summary",
                       after |-> Called(lastOp) ]
        /\ UNCHANGED << sweep, run_status, scoring, config, results >>

----------------------------------------------------------------------------
(* SpecCheck: check applied to one result drawn from CheckCards, under *)
(* every configuration of Configs.                                     *)

InitCheck ==
    /\ config \in Configs
    /\ \E card \in CheckCards \cup { None } :
          results = << EvalResult("ep-1",
                          IF card = None THEN "failed" ELSE "completed",
                          card, << >>) >>
    /\ run_alerts = << >>
    /\ total_episodes = 0
    /\ passed = 0
    /\ failed = 0
    /\ avg_weighted_score = 0
    /\ returned = << >>
    /\ lastOp = [ op |-> "init" ]
    /\ scoring = NoCall
    /\ run_status = "pending"
    /\ sweep = NoSweep

NextCheck == CheckStep

SpecCheck == InitCheck /\ [][NextCheck]_vars

----------------------------------------------------------------------------
(* SpecBatch: check_batch (and check) applied to a list of up to MaxResults *)
(* results, each carrying either no alerts or an alert list from elsewhere. *)

\* The cards of tests/test_regression.py, and two that trip several rules
BatchCards ==
    { ScoreCard("ep-1", 9000, 500, 1000, 9000, 10000, 8500),
      ScoreCard("ep-2", 9000, 5000, 0, 9000, 10000, 8000),
      ScoreCard("ep-1", 3000, 0, 0, 9000, 10000, 3000),
      ScoreCard("ep-2", 3000, 2500, 7000, 0, 5000, 3000) }

\* An alert built by hand, as tests/test_models.py builds one
StaleAlert ==
    RegressionAlert("run-0", "ep-0", "cost_delta", "info", << "Cost went up" >>, 0, 0, 0)

BatchResults ==
    { EvalResult("ep-1", IF card = None THEN "failed" ELSE "completed", card, alerts) :
        card \in BatchCards \cup { None }, alerts \in { << >>, << StaleAlert >> } }

RECURSIVE SeqsUpTo(_, _)
SeqsUpTo(S, n) ==
    IF n = 0 THEN { << >> }
    ELSE LET shorter == SeqsUpTo(S, n - 1)
         IN  shorter \cup { Append(s, x) : s \in { t \in shorter : Len(t) = n - 1 }, x \in S }

InitBatch ==
    /\ config \in Configs
    /\ results \in SeqsUpTo(BatchResults, MaxResults)
    /\ run_alerts = << >>
    /\ total_episodes = 0
    /\ passed = 0
    /\ failed = 0
    /\ avg_weighted_score = 0
    /\ returned = << >>
    /\ lastOp = [ op |-> "init" ]
    /\ scoring = NoCall
    /\ run_status = "pending"
    /\ sweep = NoSweep

NextBatch == CheckBatchStep \/ CheckStep

SpecBatch == InitBatch /\ [][NextBatch]_vars

----------------------------------------------------------------------------
(* SpecRun: an EvalRun from construction on: results are appended or the   *)
(* list is assigned anew, regressions are detected under a run id, and     *)
(* the summary is computed, in any order and any number of times.          *)

\* The two cards of tests/test_models.py test_compute_summary, and a clean
\* card on the pass mark
RunCards ==
    { ScoreCard("ep-1", 0, 0, 0, 0, 10000, 9000),
      ScoreCard("ep-2", 0, 0, 0, 0, 10000, 3000),
      ScoreCard("ep-3", 9000, 0, 0, 9000, 10000, PassMark) }

RunResults ==
    { EvalResult(card.episode_id, "completed", card, << >>) : card \in RunCards }
        \cup { EvalResult("ep-4", "failed", None, << >>) }

InitRun ==
    /\ config = EvalConfig(DefaultCostThresholdPct, DefaultLatencyThresholdPct, DefaultWeights)
    /\ results = << >>
    /\ run_alerts = << >>
    /\ total_episodes = 0
    /\ passed = 0
    /\ failed = 0
    /\ avg_weighted_score = 0
    /\ returned = << >>
    /\ lastOp = [ op |-> "init" ]
    /\ scoring = NoCall
    /\ run_status = "pending"
    /\ sweep = NoSweep

NextRun ==
    \/ AppendResultStep(RunResults)
    \/ ResetResultsStep
    \/ CheckBatchStep
    \/ ComputeSummaryStep

SpecRun == InitRun /\ [][NextRun]_vars

----------------------------------------------------------------------------
(* SpecWeighted: compute_weighted applied, any number of times, to one *)
(* score card under one weight map.                                    *)

WeightMaps ==
    { DefaultWeights,
      ("correctness" :> 100),
      ("correctness" :> 60) @@ ("overall" :> 300),
      ("correctness" :> 40) @@ ("weighted_score" :> 50),
      ("correctness" :> 40) @@ ("episode_id" :> 10) }

WeightedCards ==
    { ScoreCard("ep-1", c, cd, ld, t, s, w) :
        c \in { 0, 3000, 10000 }, cd \in { -5000, 0, 8000, 15000 },
        ld \in { -2000, 0, 2000 },
        t \in { 0, 10000 }, s \in { 0, 10000 }, w \in { 0, 9000 } }

InitWeighted ==
    /\ config \in { EvalConfig(DefaultCostThresholdPct, DefaultLatencyThresholdPct, w) :
                        w \in WeightMaps }
    /\ \E card \in WeightedCards : results = << EvalResult("ep-1", "completed", card, << >>) >>
    /\ run_alerts = << >>
    /\ total_episodes = 0
    /\ passed = 0
    /\ failed = 0
    /\ avg_weighted_score = 0
    /\ returned = << >>
    /\ lastOp = [ op |-> "init" ]
    /\ scoring = NoCall
    /\ run_status = "pending"
    /\ sweep = NoSweep

NextWeighted ==
    \/ ComputeWeightedStep
    \/ CheckStep

SpecWeighted == InitWeighted /\ [][NextWeighted]_vars

----------------------------------------------------------------------------
(* SpecScore: ScoringEngine.score applied, statement by statement, to a    *)
(* current episode and a baseline drawn from ScoreInputs; the card it      *)
(* returns is wrapped in an EvalResult and checked by the detector.        *)

\* d without key
Without(d, key) == [ k \in DOMAIN d \ { key } |-> d[k] ]

\* d with key set to each of values, and d without key
Vary(d, key, values) == { [ d EXCEPT ![key] = v ] : v \in values } \cup { Without(d, key) }

Step(step_type) == [ step_type |-> step_type ]

StepLists == SeqsUpTo({ Step("llm_call"), Step("error") }, MaxSteps)

ToolLists == SeqsUpTo({ "a", "b" }, MaxTools)

Statuses == { "success", "failure" }

\* 1/1000 USD
Costs == { 0, 4, 6, 12 }

\* milliseconds
Durations == { 0, 600, 1200 }

\* the episode of the test fixtures
SampleEpisode ==
    [ episode_id        |-> "ep-1",
      agent_id          |-> "test-agent",
      status            |-> "success",
      steps             |-> << Step("llm_call"), Step("tool_call") >>,
      total_cost_usd    |-> 4,
      total_duration_ms |-> 600,
      tools_used        |-> << "a" >> ]

SampleBaseline == [ SampleEpisode EXCEPT !.episode_id = "ep-2" ]

\* a failed run of errors only, three times as dear and twice as slow
FailedEpisode ==
    [ SampleEpisode EXCEPT !.status = "failure",
                           !.steps = << Step("error") >>,
                           !.total_cost_usd = 12,
                           !.total_duration_ms = 1200 ]

\* a baseline that took no step and used no tool
IdleBaseline == [ SampleBaseline EXCEPT !.steps = << >>, !.tools_used = << >> ]

\* the {} record
EmptyEpisode == Without([ episode_id |-> "" ], "episode_id")

Profiles ==
    { [ original |-> SampleEpisode, baseline |-> SampleBaseline ],
      [ original |-> FailedEpisode, baseline |-> IdleBaseline ] }

VaryRun(d) == UNION { Vary(e, "steps", StepLists) : e \in Vary(d, "status", Statuses) }

VaryCost(d) ==
    UNION { Vary(e, "total_duration_ms", Durations) : e \in Vary(d, "total_cost_usd", Costs) }

VaryTools(d) == Vary(d, "tools_used", ToolLists)

\* Pairs that differ from a profile in status and steps, in cost and
\* duration, or in the tools used
ComparedPairs ==
    UNION { { [ original |-> o, baseline |-> b ] : o \in VaryRun(p.original), b \in VaryRun(p.baseline) }
            \cup { [ original |-> o, baseline |-> b ] : o \in VaryCost(p.original), b \in VaryCost(p.baseline) }
            \cup { [ original |-> o, baseline |-> b ] : o \in VaryTools(p.original), b \in VaryTools(p.baseline) }
            : p \in Profiles }

\* Calls without a baseline, against the episode itself, against {} and
\* with episodes that carry no episode_id
IdentityPairs ==
    LET originals == VaryRun(SampleEpisode) \cup VaryCost(FailedEpisode) \cup VaryTools(SampleEpisode)
                        \cup { Without(SampleEpisode, "episode_id"), EmptyEpisode }
    IN  { [ original |-> o, baseline |-> b ] :
            o \in originals, b \in { None, EmptyEpisode } }
        \cup { [ original |-> o, baseline |-> o ] : o \in originals }
        \cup { [ original |-> o, baseline |-> Without(SampleBaseline, "episode_id") ] :
                 o \in { SampleEpisode, Without(SampleEpisode, "episode_id") } }

ScoreInputs == ComparedPairs \cup IdentityPairs

CorrectnessOnly == ("correctness" :> 100)

ScoreConfigs ==
    { EvalConfig(0, 0, DefaultWeights),
      EvalConfig(DefaultCostThresholdPct, DefaultLatencyThresholdPct, DefaultWeights),
      EvalConfig(-1000, -1000, CorrectnessOnly) }

\* the statement of score() that assigns one dimension of the card
SetDimension(from, dim, value) ==
    /\ scoring.pc = from
    /\ scoring' = [ scoring EXCEPT !.pc = dim, !.card[dim] = value ]
    /\ UNCHANGED << sweep, run_status, config, results, runSummary, returned, lastOp >>

\* card = ScoreCard(episode_id=..., agent_id=..., baseline_episode_id=...)
NewCardStep ==
    /\ scoring.pc = "start"
    /\ scoring' = [ scoring EXCEPT !.pc = "card",
                                   !.card = NewCard(scoring.original, scoring.baseline) ]
    /\ UNCHANGED << sweep, run_status, config, results, runSummary, returned, lastOp >>

\* card.correctness = self._score_correctness(original, compare)
CorrectnessStep ==
    SetDimension("card", "correctness",
                 score_correctness(scoring.original, Compare(scoring.original, scoring.baseline)))

\* card.cost_delta = self._score_cost_delta(original, compare)
CostDeltaStep ==
    SetDimension("correctness", "cost_delta",
                 score_cost_delta(scoring.original, Compare(scoring.original, scoring.baseline)))

\* card.latency_delta = self._score_latency_delta(original, compare)
LatencyDeltaStep ==
    SetDimension("cost_delta", "latency_delta",
                 score_latency_delta(scoring.original, Compare(scoring.original, scoring.baseline)))

\* card.tool_match = self._score_tool_match(original, compare)
ToolMatchStep ==
    SetDimension("latency_delta", "tool_match",
                 score_tool_match(scoring.original, Compare(scoring.original, scoring.baseline)))

\* card.safety = self._score_safety(original)
SafetyStep == SetDimension("tool_match", "safety", score_safety(scoring.original))

WeightedStepDefaultWeights ==
    /\ scoring.pc = "safety"
    /\ scoring' = [ scoring EXCEPT !.pc = "weighted",
                                   !.weighted_calls = scoring.weighted_calls + 1,
                                   !.card.weighted_score =
                                       compute_weighted(scoring.card, DefaultWeights) ]
    /\ UNCHANGED << sweep, run_status, config, results, runSummary, returned, lastOp >>

\* card.compute_weighted(self.config.score_weights)
WeightedStep ==
    /\ scoring.pc = "safety"
    /\ scoring' =
          IF WeightedRaises(scoring.card, config.score_weights)
          THEN [ scoring EXCEPT !.pc = "raised",
                                !.weighted_calls = scoring.weighted_calls + 1 ]
          ELSE [ scoring EXCEPT !.pc = "weighted",
                                !.weighted_calls = scoring.weighted_calls + 1,
                                !.card.weighted_score =
                                    compute_weighted(scoring.card, config.score_weights) ]
    /\ UNCHANGED << sweep, run_status, config, results, runSummary, returned, lastOp >>

\* return card
ReturnStep ==
    /\ scoring.pc = "weighted"
    /\ scoring' = [ scoring EXCEPT !.pc = "returned" ]
    /\ returned' = scoring.card
    /\ lastOp' = [ op |-> "score" ]
    /\ UNCHANGED << sweep, run_status, config, results, runSummary >>

\* result = EvalResult(episode_id=ep_id, status=COMPLETED, score_card=card)
\* eval_run.results.append(result)
CollectStep ==
    /\ scoring.pc = "returned"
    /\ Len(results) < MaxResults
    /\ scoring' = [ scoring EXCEPT !.pc = "collected" ]
    /\ results' = Append(results, EvalResult(Get(scoring.original, "episode_id", ""),
                                             "completed", scoring.card, << >>))
    /\ returned' = << >>
    /\ lastOp' = [ op |-> "append" ]
    /\ UNCHANGED << sweep, run_status, config, runSummary >>

InitScore ==
    /\ config \in ScoreConfigs
    /\ results = << >>
    /\ run_alerts = << >>
    /\ total_episodes = 0
    /\ passed = 0
    /\ failed = 0
    /\ avg_weighted_score = 0
    /\ returned = << >>
    /\ lastOp = [ op |-> "init" ]
    /\ \E in \in ScoreInputs :
          scoring = [ pc |-> "start", original |-> in.original, baseline |-> in.baseline,
                      card |-> None, weighted_calls |-> 0 ]
    /\ run_status = "pending"
    /\ sweep = NoSweep

NextScore ==
    \/ NewCardStep
    \/ CorrectnessStep
    \/ CostDeltaStep
    \/ LatencyDeltaStep
    \/ ToolMatchStep
    \/ SafetyStep
    \/ WeightedStep
    \/ ReturnStep
    \/ CollectStep
    \/ CheckStep

SpecScore == InitScore /\ [][NextScore]_vars

----------------------------------------------------------------------------
(* SpecSweep: the sweep of the drivers, NightlyRunner.run_sweep and the    *)
(* CLI's _run_eval: list the episodes, fetch and score each one, detect     *)
(* regressions, mark the run completed and compute its summary.             *)

\* an entry of the list the store returns
Summary(episode_id) == [ episode_id |-> episode_id, agent_id |-> "test-agent" ]

Summaries == { Summary(id) : id \in EpisodeIds }

\* an episode with one error step out of two
HalfFailedEpisode ==
    [ SampleEpisode EXCEPT !.steps = << Step("llm_call"), Step("error") >> ]

\* what get_episode can return
StoredEpisodes ==
    { SampleEpisode, FailedEpisode, HalfFailedEpisode, EmptyEpisode,
      Without(SampleEpisode, "episode_id") }

\* a weight map that names an attribute that is not a number
RaisingWeights == ("correctness" :> 40) @@ ("episode_id" :> 10)

SweepConfigs ==
    { EvalConfig(DefaultCostThresholdPct, DefaultLatencyThresholdPct, DefaultWeights),
      EvalConfig(0, 0, DefaultWeights),
      EvalConfig(-1000, -1000, DefaultWeights),
      EvalConfig(DefaultCostThresholdPct, DefaultLatencyThresholdPct, RaisingWeights) }

\* result = EvalResult(episode_id=ep_id, status=FAILED, error=str(e))
FailedResult(ep_id, message) ==
    [ EvalResult(ep_id, "failed", None, << >>) EXCEPT !.error = SomeError(message) ]

EvaluateMarksCompleted(ep_id, fetched, cfg) ==
    IF fetched = None THEN FailedResult(ep_id, "HTTPStatusError")
    ELSE IF ScoreRaises(fetched, None, cfg.score_weights)
    THEN EvalResult(ep_id, "completed", None, << >>)
    ELSE EvalResult(ep_id, "completed", score(fetched, None, cfg.score_weights), << >>)

EvaluateAgainstSample(ep_id, fetched, cfg) ==
    IF fetched = None THEN FailedResult(ep_id, "HTTPStatusError")
    ELSE IF ScoreRaises(fetched, SampleBaseline, cfg.score_weights)
    THEN FailedResult(ep_id, "TypeError")
    ELSE EvalResult(ep_id, "completed", score(fetched, SampleBaseline, cfg.score_weights), << >>)

\* the body of the try statement: the result built from what get_episode
\* returned, None standing for a get_episode that raised
Evaluate(ep_id, fetched, cfg) ==
    IF fetched = None THEN FailedResult(ep_id, "HTTPStatusError")
    ELSE IF ScoreRaises(fetched, None, cfg.score_weights) THEN FailedResult(ep_id, "TypeError")
    ELSE EvalResult(ep_id, "completed", score(fetched, None, cfg.score_weights), << >>)

\* episodes = await client.list_episodes(...); a failure ends the driver
ListEpisodesStep ==
    /\ sweep.pc = "list"
    /\ \/ \E episodes \in SeqsUpTo(Summaries, MaxResults) :
             sweep' = [ sweep EXCEPT !.pc = "loop", !.episodes = episodes ]
       \/ sweep' = [ sweep EXCEPT !.pc = "aborted" ]
    /\ returned' = << >>
    /\ lastOp' = [ op |-> "list_episodes" ]
    /\ UNCHANGED << run_status, scoring, config, results, runSummary >>

\* one pass of the loop over episodes, ending in eval_run.results.append(result)
EvaluateStep ==
    /\ sweep.pc = "loop"
    /\ sweep.i <= Len(sweep.episodes)
    /\ \E fetched \in StoredEpisodes \cup { None } :
          results' = Append(results,
                            Evaluate(Get(sweep.episodes[sweep.i], "episode_id", ""),
                                     fetched, config))
    /\ sweep' = [ sweep EXCEPT !.i = sweep.i + 1 ]
    /\ returned' = << >>
    /\ lastOp' = [ op |-> "append" ]
    /\ UNCHANGED << run_status, scoring, config, runSummary >>

\* detector.check_batch(eval_run.results, eval_run.run_id)
DetectStep ==
    /\ sweep.pc = "loop"
    /\ sweep.i > Len(sweep.episodes)
    /\ LET out == check_batch(results, sweep.run_id, config)
       IN  /\ results' = out.results
           /\ returned' = out.all_alerts
    /\ sweep' = [ sweep EXCEPT !.pc = "detected" ]
    /\ lastOp' = [ op |-> "check_batch", run_id |-> sweep.run_id, before |-> results,
                   again |-> FALSE ]
    /\ UNCHANGED << run_status, scoring, config, runSummary >>

\* eval_run.status = EvalStatus.COMPLETED
CompleteStep ==
    /\ sweep.pc = "detected"
    /\ run_status' = "completed"
    /\ sweep' = [ sweep EXCEPT !.pc = "completed" ]
    /\ returned' = << >>
    /\ lastOp' = [ op |-> "complete" ]
    /\ UNCHANGED << scoring, config, results, runSummary >>

\* eval_run.compute_summary()
SummaryStep ==
    /\ sweep.pc = "completed"
    /\ total_episodes' = Len(results)
    /\ passed' = CountPassed(Completed(results))
    /\ failed' = CountFailed(Completed(results))
    /\ avg_weighted_score' = Average(Completed(results), avg_weighted_score)
    /\ run_alerts' = CollectAlerts(run_alerts, results)
    /\ sweep' = [ sweep EXCEPT !.pc = "done" ]
    /\ returned' = << >>
    /\ lastOp' = [ op |-> "compute_summary", again |-> FALSE, after |-> Called(lastOp) ]
    /\ UNCHANGED << run_status, scoring, config, results >>

\* eval_run = EvalRun(config=config, status=EvalStatus.RUNNING)
InitSweep ==
    /\ config \in SweepConfigs
    /\ results = << >>
    /\ run_alerts = << >>
    /\ total_episodes = 0
    /\ passed = 0
    /\ failed = 0
    /\ avg_weighted_score = 0
    /\ returned = << >>
    /\ lastOp = [ op |-> "init" ]
    /\ scoring = NoCall
    /\ run_status = "running"
    /\ \E run_id \in RunIds :
          sweep = [ pc |-> "list", episodes |-> << >>, i |-> 1, run_id |-> run_id ]

NextSweep ==
    \/ ListEpisodesStep
    \/ EvaluateStep
    \/ DetectStep
    \/ CompleteStep
    \/ SummaryStep

SpecSweep == InitSweep /\ [][NextSweep]_vars

----------------------------------------------------------------------------
(* Claims about the regression detector *)

Templates ==
    << "Cost increased by", "Latency increased by", "Correctness score dropped to",
       "Tool match dropped to", "Safety score dropped to", "Overall weighted score" >>

\* The rule, 1..6, that an alert's message names
RuleOf(alert) == CHOOSE r \in 1..6 : Templates[r] = alert.message[1]

\* The six rule conditions, as the claims state them
RuleHolds(r, card, cfg) ==
    CASE r = 1 -> card.cost_delta > cfg.cost_threshold_pct
      [] r = 2 -> card.latency_delta > cfg.latency_threshold_pct
      [] r = 3 -> card.correctness < 5000
      [] r = 4 -> card.tool_match < 5000
      [] r = 5 -> card.safety < 8000
      [] r = 6 -> card.weighted_score < 5000

AlertsOfRule(alerts, r) == { k \in 1..Len(alerts) : alerts[k].message[1] = Templates[r] }

AlertsTagged(alerts, dim) == { k \in 1..Len(alerts) : alerts[k].dimension = dim }

Checked == lastOp.op = "check"

CheckedResult == results[lastOp.index]

CheckedCard == CheckedResult.score_card

\* C2: check returns no alert for a result without score card; otherwise exactly
\* one alert for each of the six rule conditions that holds and none for one
\* that does not, so the number of alerts is the number of conditions holding.
C2_OneAlertPerCondition ==
    Checked =>
        IF CheckedCard = None
        THEN returned = << >>
        ELSE /\ \A r \in 1..6 :
                    Cardinality(AlertsOfRule(returned, r))
                        = IF RuleHolds(r, CheckedCard, config) THEN 1 ELSE 0
             /\ Len(returned)
                    = Cardinality({ r \in 1..6 : RuleHolds(r, CheckedCard, config) })
             /\ (returned = << >>) <=> (\A r \in 1..6 : ~RuleHolds(r, CheckedCard, config))

\* C2 witness: a check on a card for which all six conditions hold
C2_Witness ==
    /\ Checked
    /\ CheckedCard # None
    /\ \A r \in 1..6 : RuleHolds(r, CheckedCard, config)
    /\ Len(returned) = 6

DeltaOf(dim) == CheckedCard[dim]

ThresholdOf(dim) ==
    IF dim = "cost_delta" THEN config.cost_threshold_pct ELSE config.latency_threshold_pct

\* The one alert tagged dim has the given severity
OneTagged(dim, severity) ==
    /\ Cardinality(AlertsTagged(returned, dim)) = 1
    /\ \A k \in AlertsTagged(returned, dim) : returned[k].severity = severity

\* The severity bands of a delta dimension
DeltaBands(dim) ==
    LET d == DeltaOf(dim)
        t == ThresholdOf(dim)
    IN  /\ d <= t => AlertsTagged(returned, dim) = {}
        /\ (t < d /\ d <= 2 * t) => OneTagged(dim, "warning")
        /\ (d > t /\ d > 2 * t) => OneTagged(dim, "critical")

\* C3 as stated: the bands, and a delta equal to 2*t is a warning whatever t is
C3_Original ==
    (Checked /\ CheckedCard # None) =>
        \A dim \in { "cost_delta", "latency_delta" } :
            /\ DeltaBands(dim)
            /\ DeltaOf(dim) = ThresholdOf(dim) => AlertsTagged(returned, dim) = {}
            /\ DeltaOf(dim) = 2 * ThresholdOf(dim) => OneTagged(dim, "warning")

\* C3 (amended): for each delta dimension d with threshold t, check emits no
\* alert when d <= t, a warning tagged d when t < d <= 2*t and a critical alert
\* tagged d when d > t and d > 2*t; a delta equal to t raises nothing, and a
\* delta equal to 2*t is a warning when t > 0 and raises nothing when t <= 0.
C3_SeverityBands ==
    (Checked /\ CheckedCard # None) =>
        \A dim \in { "cost_delta", "latency_delta" } :
            /\ DeltaBands(dim)
            /\ DeltaOf(dim) = ThresholdOf(dim) => AlertsTagged(returned, dim) = {}
            /\ (DeltaOf(dim) = 2 * ThresholdOf(dim) /\ ThresholdOf(dim) > 0)
                    => OneTagged(dim, "warning")
            /\ (DeltaOf(dim) = 2 * ThresholdOf(dim) /\ ThresholdOf(dim) <= 0)
                    => AlertsTagged(returned, dim) = {}

\* C3 witness: a cost delta of exactly twice a positive threshold was checked
\* and raised a warning, next to a latency delta beyond twice its threshold
C3_Witness ==
    /\ Checked
    /\ CheckedCard # None
    /\ config.cost_threshold_pct > 0
    /\ CheckedCard.cost_delta = 2 * config.cost_threshold_pct
    /\ OneTagged("cost_delta", "warning")
    /\ CheckedCard.latency_delta > 2 * config.latency_threshold_pct
    /\ OneTagged("latency_delta", "critical")

\* C4: every alert of a floor rule carries the tag and severity of its rule
\* (correctness: correctness/critical, tool_match: tool_match/warning, safety:
\* safety/critical, weighted_score: correctness/critical), each floor condition
\* that holds has its alert, no alert has severity info, and every alert's
\* episode_id is the score card's.
C4_FloorTags ==
    (Checked /\ CheckedCard # None) =>
        /\ \A k \in 1..Len(returned) :
              LET a == returned[k]
              IN  /\ a.severity # "info"
                  /\ a.episode_id = CheckedCard.episode_id
                  /\ RuleOf(a) = 3 => (a.dimension = "correctness" /\ a.severity = "critical")
                  /\ RuleOf(a) = 4 => (a.dimension = "tool_match" /\ a.severity = "warning")
                  /\ RuleOf(a) = 5 => (a.dimension = "safety" /\ a.severity = "critical")
                  /\ RuleOf(a) = 6 => (a.dimension = "correctness" /\ a.severity = "critical")
        /\ \A r \in 3..6 : RuleHolds(r, CheckedCard, config) => AlertsOfRule(returned, r) # {}

\* C4 witness: all four floor rules fired on a card whose episode_id is not
\* the result's
C4_Witness ==
    /\ Checked
    /\ CheckedCard # None
    /\ CheckedCard.episode_id # CheckedResult.episode_id
    /\ \A r \in 3..6 : AlertsOfRule(returned, r) # {}

Batched == lastOp.op = "check_batch"

\* An alert list with the run id blanked, as check leaves it
Unstamped(alerts) == [ k \in 1..Len(alerts) |-> [ alerts[k] EXCEPT !.eval_run_id = "" ] ]

\* C1: check_batch returns only alerts stamped with the run id given, and each
\* result's attached list is then what check yields for that result alone,
\* whatever list the result carried before.
C1_BatchStampsAndAttaches ==
    Batched =>
        /\ \A k \in 1..Len(returned) : returned[k].eval_run_id = lastOp.run_id
        /\ Len(results) = Len(lastOp.before)
        /\ \A i \in 1..Len(results) :
              /\ Unstamped(results[i].alerts) = check(lastOp.before[i], config)
              /\ \A k \in 1..Len(results[i].alerts) :
                    results[i].alerts[k].eval_run_id = lastOp.run_id
              /\ results[i].score_card = lastOp.before[i].score_card

\* C1 witness: a batch over two results that carried other alert lists, one
\* of which now has alerts and one of which has none
C1_Witness ==
    /\ Batched
    /\ Len(results) = 2
    /\ \A i \in 1..2 : lastOp.before[i].alerts # << >>
    /\ lastOp.before[1].alerts # results[1].alerts
    /\ results[1].alerts # << >>
    /\ results[2].alerts = << >>

\* Number of alerts attached to the results before result i
Offset(i) == SumSeq([ j \in 1..(i - 1) |-> Len(results[j].alerts) ])

\* C5: check_batch returns the alerts of the results in result order and,
\* within one result, in rule order (cost, latency, correctness, tool match,
\* safety, overall).
C5_BatchOrder ==
    Batched =>
        /\ Len(returned) = Offset(Len(results) + 1)
        /\ \A i \in 1..Len(results) :
              \A k \in 1..Len(results[i].alerts) :
                  returned[Offset(i) + k] = results[i].alerts[k]
        /\ \A i \in 1..Len(results) :
              \A k, l \in 1..Len(results[i].alerts) :
                  k < l => RuleOf(results[i].alerts[k]) < RuleOf(results[i].alerts[l])

\* C5 witness: a batch whose first result raised all six alerts and whose
\* second raised at least two
C5_Witness ==
    /\ Batched
    /\ Len(results) = 2
    /\ Len(results[1].alerts) = 6
    /\ Len(results[2].alerts) >= 2
    /\ results[1].alerts # results[2].alerts

----------------------------------------------------------------------------
(* Claims about the eval-run aggregator *)

Summarised == lastOp.op = "compute_summary"

Scored == { i \in 1..Len(results) : results[i].score_card # None }

Unscored == { i \in 1..Len(results) : results[i].score_card = None }

ScoreOf(i) == results[i].score_card.weighted_score

\* C6: after compute_summary, total_episodes is the number of results, passed
\* the number of scored results with weighted_score >= 0.7, failed the number
\* of scored results with weighted_score < 0.7, results without score card
\* count in total only, and results scoring 0.9 and 0.3 give 2, 1, 1 and 0.6.
C6_SummaryCounts ==
    Summarised =>
        /\ total_episodes = Len(results)
        /\ passed = Cardinality({ i \in Scored : ScoreOf(i) >= 7000 })
        /\ failed = Cardinality({ i \in Scored : ScoreOf(i) < 7000 })
        /\ passed + failed + Cardinality(Unscored) = total_episodes
        /\ (Len(results) = 2 /\ Scored = { 1, 2 } /\ { ScoreOf(1), ScoreOf(2) } = { 9000, 3000 })
              => (total_episodes = 2 /\ passed = 1 /\ failed = 1 /\ avg_weighted_score = 6000)

\* C6 witness: a summary over a result on the pass mark and one without card
C6_Witness ==
    /\ Summarised
    /\ Len(results) = 2
    /\ \E i \in Scored : ScoreOf(i) = 7000
    /\ Unscored # { }
    /\ passed = 1
    /\ failed = 0

\* C6 witness of the example: a summary over results scoring 0.9 and 0.3
C6_ExampleReached ==
    /\ Summarised
    /\ Len(results) = 2
    /\ Scored = { 1, 2 }
    /\ ScoreOf(1) = 9000
    /\ ScoreOf(2) = 3000
    /\ avg_weighted_score = 6000

\* The mean of weighted_score over the scored results, to 4 decimals
MeanOfScored ==
    LET total == SumSeq([ i \in 1..Len(results) |->
                            IF i \in Scored THEN ScoreOf(i) ELSE 0 ])
    IN  RoundDiv(total, Cardinality(Scored))

\* C7: after every compute_summary, avg_weighted_score is the mean of
\* weighted_score over the results that now have a score card, and 0.0 when
\* none has one.
C7_AverageFromScratch ==
    Summarised =>
        avg_weighted_score = IF Scored = { } THEN 0 ELSE MeanOfScored

\* C8: compute_summary invoked again on unchanged results leaves the counters,
\* the average and the run's alert list as the first invocation left them.
C8_SummaryIdempotent ==
    [][ (Summarised /\ lastOp'.op = "compute_summary") =>
            /\ total_episodes' = total_episodes
            /\ passed' = passed
            /\ failed' = failed
            /\ avg_weighted_score' = avg_weighted_score
            /\ run_alerts' = run_alerts ]_vars

\* C8 witness: a second compute_summary in a row on a run with two results
\* and alerts
C8_Witness ==
    /\ Summarised
    /\ lastOp.again
    /\ Len(results) = 2
    /\ run_alerts # << >>

\* C9: after compute_summary the run's alert list is the results' attached
\* alert lists laid end to end in result order, nothing else.
C9_RunAlertsAreResultAlerts ==
    Summarised =>
        /\ Len(run_alerts) = Offset(Len(results) + 1)
        /\ \A i \in 1..Len(results) :
              \A k \in 1..Len(results[i].alerts) :
                  run_alerts[Offset(i) + k] = results[i].alerts[k]

\* C9 witness: a summary over two results with different alert lists
C9_Witness ==
    /\ Summarised
    /\ Len(results) = 2
    /\ results[1].alerts # << >>
    /\ results[2].alerts # << >>
    /\ results[1].alerts # results[2].alerts

----------------------------------------------------------------------------
(* Claims about the weighted score *)

\* C10: compute_weighted called twice with the same weight map yields the
\* same weighted_score both times.
C10_WeightedIdempotent ==
    [][ (lastOp.op = "compute_weighted" /\ lastOp'.op = "compute_weighted") =>
            /\ returned' = returned
            /\ results'[1].score_card.weighted_score
                  = results[1].score_card.weighted_score ]_vars

\* Over weight maps that name no stored result (no key weighted_score), a
\* second call returns what the first returned
C10_IdempotentOverDimensions ==
    [][ (/\ "weighted_score" \notin DOMAIN config.score_weights
         /\ lastOp.op = "compute_weighted"
         /\ lastOp'.op = "compute_weighted") =>
            returned' = returned ]_vars

----------------------------------------------------------------------------
(* Claims about the scoring engine *)

\* score() has returned its card
Returned == scoring.pc \in { "returned", "collected" }

\* the card is under construction, compute_weighted not yet invoked
Building == scoring.pc \in { "card", "correctness", "cost_delta", "latency_delta",
                             "tool_match", "safety" }

\* the returned card has been wrapped in a result and that result checked
ScoredAndChecked == scoring.pc = "collected" /\ Checked

\* the episode the current one is compared with, as the claims state it
Against ==
    IF scoring.baseline = None THEN scoring.original
    ELSE IF DOMAIN scoring.baseline = { } THEN scoring.original
    ELSE scoring.baseline

\* what a delta contributes to the weighted sum, as the claims state it
Contribution(delta) == IF delta > 10000 \/ delta < -10000 THEN 0 ELSE 10000 - Abs(delta)

WeightOf(weights, dim) == IF dim \in DOMAIN weights THEN weights[dim] ELSE 0

\* the weighted formula over the five dimensions of a card
WeightedFormula(card, weights) ==
    RoundDiv(WeightOf(weights, "correctness") * card.correctness
                 + WeightOf(weights, "cost_delta") * Contribution(card.cost_delta)
                 + WeightOf(weights, "latency_delta") * Contribution(card.latency_delta)
                 + WeightOf(weights, "tool_match") * card.tool_match
                 + WeightOf(weights, "safety") * card.safety,
             100)

\* C11: under the default weight map every card score() returns has
\* correctness, tool_match, safety and weighted_score within [0, 1], and a
\* cost or latency delta beyond 100% adds nothing to the weighted sum.
C11_ScoresInRange ==
    (Returned /\ config.score_weights = DefaultWeights) =>
        LET card == scoring.card
        IN  /\ card.correctness \in 0..10000
            /\ card.tool_match \in 0..10000
            /\ card.safety \in 0..10000
            /\ card.weighted_score \in 0..10000
            /\ Abs(card.cost_delta) > 10000 =>
                  card.weighted_score =
                      RoundDiv(40 * card.correctness + 10 * Contribution(card.latency_delta)
                                   + 20 * card.tool_match + 10 * card.safety, 100)
            /\ Abs(card.latency_delta) > 10000 =>
                  card.weighted_score =
                      RoundDiv(40 * card.correctness + 20 * Contribution(card.cost_delta)
                                   + 20 * card.tool_match + 10 * card.safety, 100)

\* C11 witness: a returned card whose cost delta is beyond 100% and whose
\* other dimensions are all 0
C11_Witness ==
    /\ Returned
    /\ config.score_weights = DefaultWeights
    /\ scoring.card.cost_delta > 10000
    /\ scoring.card.correctness = 0
    /\ scoring.card.tool_match = 0
    /\ scoring.card.safety = 0
    /\ scoring.card.weighted_score = 0

\* C12: the card's weighted_score is 0.0 from construction until
\* compute_weighted is invoked; score() invokes it once, when the five
\* dimensions have their final values, with the configuration's weights; so the
\* returned card's weighted_score is the weighted formula of its own dimensions.
C12_WeightedOnceAfterDimensions ==
    /\ [](Building => (scoring.card.weighted_score = 0 /\ scoring.weighted_calls = 0))
    /\ [](scoring.pc \in { "weighted", "returned", "collected" } =>
              /\ scoring.weighted_calls = 1
              /\ scoring.card.weighted_score =
                     WeightedFormula(scoring.card, config.score_weights))
    /\ [][(scoring.pc # "idle" /\ scoring'.weighted_calls # scoring.weighted_calls) =>
              /\ scoring.pc = "safety"
              /\ \A dim \in { "correctness", "cost_delta", "latency_delta",
                              "tool_match", "safety" } :
                     scoring'.card[dim] = scoring.card[dim]]_vars
    /\ [][(Returned /\ scoring'.pc # "idle") => scoring'.card = scoring.card]_vars

\* C12 witness: a returned card with a non-zero weighted score under a weight
\* map other than the default one
C12_Witness ==
    /\ scoring.pc = "returned"
    /\ config.score_weights # DefaultWeights
    /\ scoring.card.weighted_score > 0
    /\ scoring.card.safety # 10000

\* C13: score() signals a failure and returns no card when the current
\* episode record has no episode identifier.
C13_MissingIdSignalled ==
    ("episode_id" \notin DOMAIN scoring.original) => ~Returned

\* the card's baseline_episode_id, as the claims state it
BaselineIdOf(episode) ==
    IF "episode_id" \in DOMAIN episode THEN << episode.episode_id >> ELSE << >>

\* the call scores the episode against itself
SelfScored == scoring.baseline = None \/ scoring.baseline = scoring.original

SelfScoreValues ==
    (Returned /\ SelfScored) =>
        /\ scoring.card.correctness = 10000
        /\ scoring.card.cost_delta = 0
        /\ scoring.card.latency_delta = 0
        /\ scoring.card.tool_match = 10000

C14_IdlessBaselineReached ==
    /\ Returned
    /\ scoring.baseline # None
    /\ DOMAIN scoring.baseline # { }
    /\ "episode_id" \notin DOMAIN scoring.baseline
    /\ scoring.card.baseline_episode_id = << >>

\* C15: cost_delta is 0.0 whenever the baseline's total cost is 0 and
\* latency_delta is 0.0 whenever its total duration is 0, whatever the current
\* value; so under a non-negative threshold such an episode gets no cost
\* alert, respectively no latency alert.
C15_ZeroBaselineNoDelta ==
    LET baseline_cost == Get(Against, "total_cost_usd", 0)
        baseline_ms   == Get(Against, "total_duration_ms", 0)
    IN  /\ (Returned /\ baseline_cost = 0) => scoring.card.cost_delta = 0
        /\ (Returned /\ baseline_ms = 0) => scoring.card.latency_delta = 0
        /\ (ScoredAndChecked /\ baseline_cost = 0 /\ config.cost_threshold_pct >= 0) =>
              AlertsTagged(returned, "cost_delta") = { }
        /\ (ScoredAndChecked /\ baseline_ms = 0 /\ config.latency_threshold_pct >= 0) =>
              AlertsTagged(returned, "latency_delta") = { }

\* C15 witness: a current episode with a cost and a duration checked against a
\* baseline whose cost and duration are 0, under thresholds of 0
C15_Witness ==
    /\ ScoredAndChecked
    /\ Get(scoring.original, "total_cost_usd", 0) > 0
    /\ Get(scoring.original, "total_duration_ms", 0) > 0
    /\ scoring.baseline # None
    /\ scoring.baseline # scoring.original
    /\ Get(Against, "total_cost_usd", 0) = 0
    /\ Get(Against, "total_duration_ms", 0) = 0
    /\ config.cost_threshold_pct = 0
    /\ config.latency_threshold_pct = 0
    /\ AlertsTagged(returned, "cost_delta") = { }
    /\ AlertsTagged(returned, "latency_delta") = { }

CurrentTools == Get(scoring.original, "tools_used", << >>)

BaselineTools == Get(Against, "tools_used", << >>)

\* the set of names a tool list contains
NamesOf(tools) == { tools[i] : i \in 1..Len(tools) }

\* the two lists agree on every position of the shorter one
AgreeOnShorter(a, b) ==
    \A i \in 1..Len(a) : i <= Len(b) => a[i] = b[i]

\* C16 as stated: two non-empty tool lists with the same set of names that
\* differ as sequences score below 1.0, a b against b a scores 0.6, and
\* tool_match is 1.0 only for identical sequences or two empty lists.
C16_Original ==
    Returned =>
        /\ ( /\ CurrentTools # << >>
             /\ BaselineTools # << >>
             /\ NamesOf(CurrentTools) = NamesOf(BaselineTools)
             /\ CurrentTools # BaselineTools ) => scoring.card.tool_match < 10000
        /\ (CurrentTools = << "a", "b" >> /\ BaselineTools = << "b", "a" >>) =>
              scoring.card.tool_match = 6000
        /\ scoring.card.tool_match = 10000 => CurrentTools = BaselineTools

\* C16 amended: two non-empty tool lists of the same length with the same set
\* of names that differ as sequences score below 1.0, a b against b a scores
\* 0.6, and tool_match is 1.0 only for two empty lists or for two lists with
\* the same set of names that agree on every position of the shorter one.
C16_OrderSensitive ==
    Returned =>
        /\ ( /\ CurrentTools # << >>
             /\ BaselineTools # << >>
             /\ Len(CurrentTools) = Len(BaselineTools)
             /\ NamesOf(CurrentTools) = NamesOf(BaselineTools)
             /\ CurrentTools # BaselineTools ) => scoring.card.tool_match < 10000
        /\ (CurrentTools = << "a", "b" >> /\ BaselineTools = << "b", "a" >>) =>
              scoring.card.tool_match = 6000
        /\ scoring.card.tool_match = 10000 =>
              \/ CurrentTools = << >> /\ BaselineTools = << >>
              \/ /\ NamesOf(CurrentTools) = NamesOf(BaselineTools)
                 /\ AgreeOnShorter(CurrentTools, BaselineTools)

\* C16 witness: a b scored against b a
C16_Witness ==
    /\ Returned
    /\ CurrentTools = << "a", "b" >>
    /\ BaselineTools = << "b", "a" >>
    /\ scoring.card.tool_match = 6000

\* C16 witness of the amended case: a list scored against a longer list with
\* the same names that repeats one
C16_RepeatedNameReached ==
    /\ Returned
    /\ CurrentTools = << "a" >>
    /\ BaselineTools = << "a", "a" >>
    /\ scoring.card.tool_match = 10000

ScoredSteps == Get(scoring.original, "steps", << >>)

\* the episode has a step and every step of it has kind error
AllErrors(steps) ==
    /\ steps # << >>
    /\ \A i \in 1..Len(steps) : steps[i].step_type = "error"

NoErrors(steps) == \A i \in 1..Len(steps) : steps[i].step_type # "error"

LowCorrectnessOnly(card) ==
    /\ card.correctness = 3000
    /\ card.cost_delta = 0
    /\ card.latency_delta = 0
    /\ card.tool_match = 10000
    /\ card.safety = 10000

\* check of a result right after compute_weighted under the default weights
FinalizedAndChecked ==
    /\ Checked
    /\ lastOp.after = "compute_weighted"
    /\ config.score_weights = DefaultWeights
    /\ CheckedCard # None

\* C18 as stated: under the default weights a finalized card with correctness
\* 0.3 and every other dimension high has a weighted score below 0.5, so check
\* emits two alerts tagged correctness: the correctness alert and the overall
\* score alert.
C18_Original ==
    (FinalizedAndChecked /\ LowCorrectnessOnly(CheckedCard)) =>
        /\ CheckedCard.weighted_score < 5000
        /\ Cardinality(AlertsTagged(returned, "correctness")) = 2
        /\ AlertsOfRule(returned, 3) # { }
        /\ AlertsOfRule(returned, 6) # { }

\* C18 amended: under the default weights a finalized card with correctness
\* 0.3 and every other dimension high has a weighted score of 0.72, so check
\* emits one alert tagged correctness, the critical correctness alert, and no
\* overall score alert.
C18_LowCorrectnessAlone ==
    (FinalizedAndChecked /\ LowCorrectnessOnly(CheckedCard)) =>
        /\ CheckedCard.weighted_score = 7200
        /\ Len(returned) = 1
        /\ returned[1].dimension = "correctness"
        /\ returned[1].severity = "critical"
        /\ AlertsOfRule(returned, 3) = { 1 }
        /\ AlertsOfRule(returned, 6) = { }

\* C18 witness: the example card finalized and checked
C18_Witness ==
    /\ FinalizedAndChecked
    /\ LowCorrectnessOnly(CheckedCard)
    /\ CheckedCard.weighted_score = 7200
    /\ Len(returned) = 1

CurrentStatus == Get(scoring.original, "status", "")

BaselineStatus == Get(Against, "status", "")

\* the current status differs from the baseline's and is not success
Regressed == CurrentStatus # BaselineStatus /\ CurrentStatus # "success"

\* C19: a current status that differs from the baseline's and is not success
\* gives correctness of at most 0.3 and a critical correctness alert from
\* check; equal statuses give correctness of at least 0.7 and no alert of the
\* correctness rule.
C19_StatusAndCorrectness ==
    /\ (Returned /\ Regressed) => scoring.card.correctness <= 3000
    /\ (ScoredAndChecked /\ Regressed) =>
          \E k \in AlertsOfRule(returned, 3) :
              returned[k].dimension = "correctness" /\ returned[k].severity = "critical"
    /\ (Returned /\ CurrentStatus = BaselineStatus) => scoring.card.correctness >= 7000
    /\ (ScoredAndChecked /\ CurrentStatus = BaselineStatus) =>
          AlertsOfRule(returned, 3) = { }

\* C19 witness: a failed episode with as many steps as its successful
\* baseline, scored 0.3 and checked
C19_Witness ==
    /\ ScoredAndChecked
    /\ CurrentStatus = "failure"
    /\ BaselineStatus = "success"
    /\ scoring.card.correctness = 3000
    /\ AlertsOfRule(returned, 3) # { }

\* C19 witness of equal statuses with the lowest blend: 0.7 + 0.3 * 1/2
C19_EqualStatusReached ==
    /\ ScoredAndChecked
    /\ CurrentStatus = BaselineStatus
    /\ scoring.card.correctness = 8500
    /\ AlertsOfRule(returned, 3) = { }

SameFraction(x, y) == x.num * y.den = y.num * x.den

ToolsOnly(tools) == [ tools_used |-> tools ]

\* C20 as stated: swapping the two tool lists leaves the Jaccard term
\* unchanged for every pair, and there are two tool lists for which the
\* position term, and so tool_match, differs after the swap.
C20_Original ==
    Returned =>
        /\ SameFraction(SetScore(CurrentTools, BaselineTools),
                        SetScore(BaselineTools, CurrentTools))
        /\ \E a \in ToolLists, b \in ToolLists :
              /\ ~SameFraction(OrderScore(a, b), OrderScore(b, a))
              /\ score_tool_match(ToolsOnly(a), ToolsOnly(b))
                     # score_tool_match(ToolsOnly(b), ToolsOnly(a))

\* C20 amended: swapping the two tool lists leaves the Jaccard term, the
\* position term and tool_match unchanged for every pair.
C20_SwapSymmetric ==
    Returned =>
        /\ SameFraction(SetScore(CurrentTools, BaselineTools),
                        SetScore(BaselineTools, CurrentTools))
        /\ SameFraction(OrderScore(CurrentTools, BaselineTools),
                        OrderScore(BaselineTools, CurrentTools))
        /\ scoring.card.tool_match = score_tool_match(Against, scoring.original)

\* C20 witness: a list scored against a longer list that starts with it, with
\* the same tool_match of 0.7 in either direction
C20_Witness ==
    /\ Returned
    /\ CurrentTools = << "a" >>
    /\ BaselineTools = << "a", "b" >>
    /\ scoring.card.tool_match = 7000
    /\ score_tool_match(Against, scoring.original) = 7000

----------------------------------------------------------------------------
(* Claims about the drivers *)

\* the sweep has gone through detection
Detected == sweep.pc \in { "detected", "completed", "done" }

\* C21: once the run's status is completed, its summary counters, average
\* score, alert list and result list, and every result's alert list, change
\* no more.
C21_ReadOnlyOnceCompleted ==
    [][run_status = "completed" => (runSummary' = runSummary /\ results' = results)]_vars

\* C22: a sweep appends one result per enumerated episode, in enumeration
\* order, so the finished run has as many results as episodes; a fetch or a
\* scoring that fails gives a failed result with an error message and no score
\* card, and the sweep goes on; a result is completed exactly when it has a
\* score card; failed results end the sweep without alerts.
C22_OneResultPerEpisode ==
    sweep.pc \in { "loop", "detected", "completed", "done" } =>
        /\ Len(results) = sweep.i - 1
        /\ Len(results) <= Len(sweep.episodes)
        /\ Detected => Len(results) = Len(sweep.episodes)
        /\ \A k \in 1..Len(results) :
              /\ results[k].episode_id = sweep.episodes[k].episode_id
              /\ results[k].status \in { "completed", "failed" }
              /\ results[k].status = "completed" <=> results[k].score_card # None
              /\ results[k].status = "failed" =>
                    (results[k].error # << >> /\ results[k].score_card = None)
              /\ (Detected /\ results[k].status = "failed") => results[k].alerts = << >>

\* C22 witness: a finished sweep over two episodes whose first fetch failed
\* and whose second episode was scored
C22_Witness ==
    /\ sweep.pc = "done"
    /\ Len(sweep.episodes) = 2
    /\ Len(results) = 2
    /\ results[1].status = "failed"
    /\ results[1].error = << "HTTPStatusError" >>
    /\ results[2].status = "completed"
    /\ results[2].score_card # None
    /\ total_episodes = 2

\* C22 witness of a scoring that failed before another episode was evaluated
C22_ScoringFailureReached ==
    /\ sweep.pc = "done"
    /\ Len(results) = 2
    /\ results[1].error = << "TypeError" >>
    /\ results[2].status = "failed"

----------------------------------------------------------------------------
(* Further claims about the weighted score *)

\* compute_weighted has just stored a score under the default weights
WeightedByDefault ==
    /\ lastOp.op = "compute_weighted"
    /\ ~lastOp.raised
    /\ config.score_weights = DefaultWeights

WeightedCard == results[lastOp.index].score_card

\* the goodness of a delta as C23 states it: 1.0 for an improvement
ImprovementGoodness(delta) ==
    IF delta <= 0 THEN 10000 ELSE IF delta > 10000 THEN 0 ELSE 10000 - delta

----------------------------------------------------------------------------
(* Claims about repeated detection and about self-scored sweeps *)

\* compute_summary has run right after a check_batch
SummarisedAfterDetection == Summarised /\ lastOp.after.op = "check_batch"

\* the alerts are one for each rule condition that holds for the result, all
\* stamped with run_id
OnePerCondition(result, alerts, run_id) ==
    /\ result.score_card = None => alerts = << >>
    /\ result.score_card # None =>
          \A r \in 1..6 :
              Cardinality(AlertsOfRule(alerts, r)) =
                  IF RuleHolds(r, result.score_card, config) THEN 1 ELSE 0
    /\ \A k \in 1..Len(alerts) : alerts[k].eval_run_id = run_id

\* C24: after any number of check_batch calls on the same results and a
\* compute_summary, each result's alert list and the run's alert list hold one
\* alert per rule condition that holds for the result, as after one
\* check_batch, all stamped with the run id of the latest call.
C24_NoAccumulation ==
    SummarisedAfterDetection =>
        /\ \A i \in 1..Len(results) :
              /\ OnePerCondition(results[i], results[i].alerts, lastOp.after.run_id)
              /\ OnePerCondition(results[i],
                                 SubSeq(run_alerts, Offset(i) + 1, Offset(i + 1)),
                                 lastOp.after.run_id)
        /\ Len(run_alerts) = Offset(Len(results) + 1)

\* C24 witness: a summary after a check_batch that itself followed a
\* check_batch, over two results of which one carries alerts
C24_Witness ==
    /\ SummarisedAfterDetection
    /\ lastOp.after.again
    /\ Len(results) = 2
    /\ Len(results[1].alerts) + Len(results[2].alerts) = 3
    /\ Len(run_alerts) = 3

\* every alert of the result is the safety alert
OnlySafetyAlerts(result) ==
    \A k \in 1..Len(result.alerts) :
        /\ result.alerts[k].message[1] = Templates[5]
        /\ result.alerts[k].dimension = "safety"

SelfScoredCard(card) ==
    /\ card.correctness = 10000
    /\ card.cost_delta = 0
    /\ card.latency_delta = 0
    /\ card.tool_match = 10000
    /\ card.weighted_score >= 9000

SelfScoredSweep ==
    /\ \A i \in Scored : SelfScoredCard(results[i].score_card)
    /\ sweep.pc = "done" => (failed = 0 /\ passed = Cardinality(Scored))

\* C25 as stated: in a sweep under the default weights every scored result
\* has correctness 1.0, both deltas 0.0, tool_match 1.0 and a weighted score
\* of at least 0.9; failed is 0, passed is the number of scored results, and
\* no result carries an alert other than the safety alert.
C25_Original ==
    (sweep.pc # "idle" /\ config.score_weights = DefaultWeights) =>
        /\ SelfScoredSweep
        /\ \A i \in 1..Len(results) : OnlySafetyAlerts(results[i])

\* C25 amended: the same, the alerts under cost and latency thresholds that
\* are not negative.
C25_SelfScoredSweep ==
    (sweep.pc # "idle" /\ config.score_weights = DefaultWeights) =>
        /\ SelfScoredSweep
        /\ (config.cost_threshold_pct >= 0 /\ config.latency_threshold_pct >= 0) =>
              \A i \in 1..Len(results) : OnlySafetyAlerts(results[i])

\* C25 witness: a finished sweep under thresholds of 0 with a clean episode
\* and an episode of errors only, which carries the safety alert alone
C25_Witness ==
    /\ sweep.pc = "done"
    /\ config.score_weights = DefaultWeights
    /\ config.cost_threshold_pct = 0
    /\ Len(results) = 2
    /\ Scored = { 1, 2 }
    /\ results[1].alerts = << >>
    /\ Len(results[2].alerts) = 1
    /\ results[2].score_card.weighted_score = 9000
    /\ passed = 2
    /\ failed = 0

====
